---- MODULE Spec2Model ----
(***************************************************************************)
(* Model of the concurrent fetch pipeline of src/main.py:                  *)
(* MemoryDownloader (entry resolution, the two-phase fetch of one entry,   *)
(* the shared counters under self.lock, the thread pool and the progress   *)
(* loop of download_all), and of App.run_backup around it (the manifest,   *)
(* the archive, the upload).                                               *)
(*                                                                         *)
(* Text is modelled as a sequence of tokens: the separators the code       *)
(* searches for ("&mid=", "id=", "&") are one token each, every other      *)
(* token is one character.  A datetime is a number of half seconds, so     *)
(* that formatting with second precision is not the identity.              *)
(***************************************************************************)
EXTENDS Integers, Sequences, FiniteSets, Bags, TLC

\* ------------------------------------------------------------- bounds
MaxEntries == 2      \* longest batch (len(memories))
MaxClock == 2        \* last value of the wall clock, in half seconds
MaxConcurrent == 2   \* largest number typed into "Maximum parallel downloads"
MaxRuns == 2         \* batches run against one output root (SpecRerun)
MaxRerun == 1        \* longest batch that is run again (SpecRerun)
MaxBackup == 2       \* longest manifest run_backup is given (SpecBackup)

\* ------------------------------------------------------------- values
\* A Date value: text with a date-time in it, other text, or not text.
\*   kind "text": sep is the separator between date and time (" " or "T"),
\*                utc whether " UTC" trails, sec the second it denotes;
\*   kind "junk": text matching neither pattern;  kind "empty": "" or None;
\*   kind "num" : a truthy value that is not text (a JSON number).
DateText(sep, utc, sec) == [kind |-> "text", sep |-> sep, utc |-> utc, sec |-> sec]
DateJunk == [kind |-> "junk", sep |-> "", utc |-> FALSE, sec |-> 0]
DateEmpty == [kind |-> "empty", sep |-> "", utc |-> FALSE, sec |-> 0]
DateNum == [kind |-> "num", sep |-> "", utc |-> FALSE, sec |-> 0]

\* One manifest entry (dict): the six keys the code looks up; a missing key
\* reads as empty (dict.get gives None, which `or` treats like "").
Memory(D, d, M, m, L, l) ==
    [Date |-> D, date |-> d, MediaType |-> M, media_type |-> m,
     DownloadLink |-> L, download_link |-> l]

\* The export the batches are cut from (contiguous slices of it).
Export ==
    << Memory(DateNum, DateEmpty, "PHOTO", "", <<"u", "&mid=", "a">>, <<>>),
       Memory(DateText(" ", TRUE, 0), DateEmpty, "PHOTO", "", <<"u", "&mid=", "a">>, <<>>),
       Memory(DateEmpty, DateText("T", FALSE, 0), "", "Photo", <<>>, <<"u", "id=", "a", "&", "b">>),
       Memory(DateJunk, DateEmpty, "VIDEO", "", <<"u">>, <<>>),
       Memory(DateJunk, DateEmpty, "VIDEO", "", <<"u">>, <<>>),
       Memory(DateText(" ", FALSE, 1), DateEmpty, "gif", "", <<>>, <<>>),
       Memory(DateText("T", TRUE, 2), DateEmpty, "", "video", <<"&mid=", "/", "&mid=", "b">>, <<>>) >>

Slices ==
    { ab \in (1..Len(Export)) \X (0..Len(Export)) : ab[2] - ab[1] < MaxEntries }
Batches == { SubSeq(Export, ab[1], ab[2]) : ab \in Slices }

\* What json.load gives for the manifest file: a list, a string, a dict (has
\* tells whether it has the key "Saved Media", saved is the value under it), or
\* no value at all when the file is not JSON.
JList(items) == [type |-> "list", items |-> items]
JString == [type |-> "str", items |-> <<>>]
JInvalid == [type |-> "invalid", items |-> <<>>]
JDict(has, saved) == [type |-> "dict", items |-> <<>>, has |-> has, saved |-> saved]

\* faulty variant: the unwrapped value is returned whatever it is
read_memories_json_Unchecked(d) ==
    IF d.type = "invalid"
    THEN [raised |-> TRUE, msg |-> "JSONDecodeError", memories |-> <<>>]
    ELSE LET mems == IF d.type = "dict" /\ d.has THEN d.saved ELSE d
         IN  [raised |-> FALSE, msg |-> "", memories |-> mems.items]

\* read_memories_json: [raised, msg, memories]
read_memories_json(d) ==
    IF d.type = "invalid"
    THEN [raised |-> TRUE, msg |-> "JSONDecodeError", memories |-> <<>>]
    ELSE LET mems == IF d.type = "dict" /\ d.has THEN d.saved ELSE d
         IN  IF mems.type # "list"
             THEN [raised |-> TRUE, memories |-> <<>>,
                   msg |-> "Unexpected JSON structure for memories_history.json"]
             ELSE [raised |-> FALSE, msg |-> "", memories |-> mems.items]

\* ------------------------------------------------------------- resolver
Truthy(v) == v.kind # "empty"

\* str.replace(" UTC", "").strip()
StripUtc(raw) == [raw EXCEPT !.utc = FALSE]

\* datetime.strptime(raw, fmt): fmt is the separator of the pattern
strptime(raw, fmt) ==
    IF raw.kind = "text" /\ raw.sep = fmt /\ ~raw.utc
    THEN [ok |-> TRUE, dt |-> raw.sec * 2]
    ELSE [ok |-> FALSE, dt |-> 0]

\* faulty variant: only the first pattern is tried
_parse_date_OnePattern(memory, clock) ==
    LET raw0 == IF Truthy(memory.Date) THEN memory.Date
                ELSE IF Truthy(memory.date) THEN memory.date ELSE DateEmpty
    IN  IF raw0.kind = "num" THEN [raised |-> TRUE, dt |-> 0, now |-> FALSE]
        ELSE LET raw == StripUtc(raw0)
                 p1 == strptime(raw, " ")
                 p2 == strptime(raw, "T")
             IN  IF p1.ok THEN [raised |-> FALSE, dt |-> p1.dt, now |-> FALSE]
                 ELSE [raised |-> FALSE, dt |-> clock, now |-> TRUE]

\* _parse_date: [raised, dt, now].  A value that is not text has no
\* replace(); now tells that datetime.now() was called.
_parse_date(memory, clock) ==
    LET raw0 == IF Truthy(memory.Date) THEN memory.Date
                ELSE IF Truthy(memory.date) THEN memory.date ELSE DateEmpty
    IN  IF raw0.kind = "num" THEN [raised |-> TRUE, dt |-> 0, now |-> FALSE]
        ELSE LET raw == StripUtc(raw0)
                 p1 == strptime(raw, " ")
                 p2 == strptime(raw, "T")
             IN  IF p1.ok THEN [raised |-> FALSE, dt |-> p1.dt, now |-> FALSE]
                 ELSE IF p2.ok THEN [raised |-> FALSE, dt |-> p2.dt, now |-> FALSE]
                 ELSE [raised |-> FALSE, dt |-> clock, now |-> TRUE]

\* str.upper() on the media types of the export
upper(s) == CASE s = "video" -> "VIDEO" [] s = "Photo" -> "PHOTO" [] OTHER -> s

_infer_extension(memory) ==
    LET mtype == upper(IF memory.MediaType # "" THEN memory.MediaType ELSE memory.media_type)
    IN  IF mtype = "VIDEO" THEN ".mp4" ELSE IF mtype = "PHOTO" THEN ".jpg" ELSE ".bin"

\* _get_download_endpoint: [raised, link]
_get_download_endpoint(memory) ==
    LET link == IF memory.DownloadLink # <<>> THEN memory.DownloadLink
                ELSE memory.download_link
    IN  [raised |-> link = <<>>, link |-> link]

\* first position of token t in s, 0 if absent
RECURSIVE IndexFrom(_, _, _)
IndexFrom(s, t, k) ==
    IF k > Len(s) THEN 0 ELSE IF s[k] = t THEN k ELSE IndexFrom(s, t, k + 1)
Find(s, t) == IndexFrom(s, t, 1)

\* s.split("&", 1)[0]: "&mid=" begins with "&", so it ends the part as well
RECURSIVE UpToAmp(_)
UpToAmp(s) ==
    IF s = <<>> \/ Head(s) \in {"&", "&mid="} THEN <<>>
    ELSE <<Head(s)>> \o UpToAmp(Tail(s))

AfterFirst(s, t) == SubSeq(s, Find(s, t) + 1, Len(s))

snap_id_of(dl_link) ==
    IF Find(dl_link, "&mid=") # 0 THEN UpToAmp(AfterFirst(dl_link, "&mid="))
    ELSE IF Find(dl_link, "id=") # 0 THEN UpToAmp(AfterFirst(dl_link, "id="))
    ELSE <<"id">>

BadChars == {"<", ">", ":", "\"", "/", "\\", "|", "?", "*"}

RECURSIVE rstrip(_)
rstrip(s) == IF s # <<>> /\ s[Len(s)] = " " THEN rstrip(SubSeq(s, 1, Len(s) - 1)) ELSE s

\* sanitize_filename on the part of fname after the time stamp (the stamp is
\* digits, "-" and "_": no bad character, no leading blank)
sanitize_filename(name) ==
    rstrip([k \in 1..Len(name) |-> IF name[k] \in BadChars THEN "_" ELSE name[k]])

\* date.strftime('%Y-%m-%d_%H%M%S'): whole seconds
strftime(dt) == dt \div 2
\* date.year: the model's years are two seconds long
year(dt) == dt \div 4

\* out_path = output_root / str(date.year) / fname
out_path_of(dt, snap_id, ext) ==
    [year |-> year(dt), stamp |-> strftime(dt),
     name |-> sanitize_filename(<<"_">> \o snap_id \o <<ext>>)]

\* lines of _download_single 139-154 up to ensure_dir: [raised, msg, path]
NoPath == [year |-> -1, stamp |-> -1, name |-> <<>>]
Resolve(memory, clock) ==
    LET d == _parse_date(memory, clock)
        e == _get_download_endpoint(memory)
    IN  IF d.raised THEN [raised |-> TRUE, msg |-> "AttributeError", path |-> NoPath]
        ELSE IF e.raised THEN [raised |-> TRUE, msg |-> "No 'Download Link' in memory entry", path |-> NoPath]
        ELSE [raised |-> FALSE, msg |-> "",
              path |-> out_path_of(d.dt, snap_id_of(e.link), _infer_extension(memory))]

\* validate_inputs: the worker count is at least 1
ClampWorkers(n) == IF n < 1 THEN 1 ELSE n

\* _safe_request: the outcome of session.request + raise_for_status
\* becomes a return or a RuntimeError with one of two messages
HttpOutcomes == {"2xx", "timeout", "transport", "non2xx"}
\* faulty variant: raise_for_status is left out
_safe_request_NoStatus(outcome) ==
    CASE outcome \in {"2xx", "non2xx"} -> [raised |-> FALSE, msg |-> ""]
      [] outcome = "timeout" ->
            [raised |-> TRUE, msg |-> "Network timeout while contacting Snapchat servers"]
      [] OTHER -> [raised |-> TRUE, msg |-> "Network error"]

_safe_request(outcome) ==
    CASE outcome = "2xx" -> [raised |-> FALSE, msg |-> ""]
      [] outcome = "timeout" ->
            [raised |-> TRUE, msg |-> "Network timeout while contacting Snapchat servers"]
      [] OTHER -> [raised |-> TRUE, msg |-> "Network error"]

\* a line of the status label or of the log
Line(kind, n, tot, ok, skip, fail, msg) ==
    [kind |-> kind, n |-> n, total |-> tot, ok |-> ok, skip |-> skip, fail |-> fail,
     msg |-> msg, percent |-> 0]
NoLine == Line("", 0, 0, 0, 0, 0, "")
ErrorLine(i, tot, msg) == Line("error", i, tot, 0, 0, 0, msg)

\* ------------------------------------------------------------- state
VARIABLES
    memories,     \* self.memories
    max_workers,  \* self.max_workers
    total, completed, skipped, failed,   \* the counters
    lock,         \* self.lock: 0 free, i held by the worker of entry i
    pc,           \* where the task of each entry is
    out_path,     \* local out_path of each task
    exc,          \* message of the exception each task caught
    outcome,      \* which return each task took: "ok", "skipped", "failed"
    files,        \* the files under output_root: path -> [state, run, by]
    dirs,         \* the year directories under output_root
    now,          \* the wall clock when it was last read
    cpc,          \* where download_all is
    futures,      \* the futures list: the entries submitted so far, in order
    done,         \* local done of the progress loop
    seen,         \* counter values the progress line has read so far
    status,       \* the line the latest step pushed to the status label, if any
    log,          \* the log, a bag of lines
    posts, gets,  \* token and content requests issued for each entry
    token_resp,   \* local token_resp of each task: "2xx" once the request returned
    media_resp,   \* local media_resp of each task
    opens,        \* times each task opened its destination for writing
    incs,         \* times each task incremented completed
    run,          \* number of the batch against this output root
    last,         \* the previous batch: its outcomes and the files it left
    thread,       \* the pool thread that runs each entry, 0 when none does
    app,          \* where run_backup is
    data,         \* the decoded JSON of the manifest file
    webdav,       \* config has webdav_url, webdav_user and webdav_pass
    archive,      \* the ZIP file next to output_root: "none", "partial", "written"
    uploads,      \* calls of client.upload_sync
    error         \* message of the exception run_backup caught

\* the state of run_backup around the downloader
backup == << app, data, webdav, archive, uploads, error >>

vars == << memories, max_workers, total, completed, skipped, failed, lock, pc,
           out_path, exc, outcome, files, dirs, now, cpc, futures, done, seen, status,
           log, posts, gets, token_resp, media_resp, opens, incs, run, last, thread,
           app, data, webdav, archive, uploads, error >>

Tasks == 1..total
NoSeen == [completed |-> 0, skipped |-> 0, failed |-> 0, skipped2 |-> 0]
NoLast == [run |-> 0, fetched |-> FALSE, out_path |-> <<>>]
Active == {"resolve", "exists", "skip1", "skip2", "post", "get", "open", "copy",
           "ok1", "exc1", "exc2", "report"}

\* MemoryDownloader.__init__: the state of a new downloader and of its batch
MemoryDownloader(mems, workers) ==
    [ memories |-> mems,
      max_workers |-> workers,
      total |-> Len(mems),
      completed |-> 0,
      skipped |-> 0,
      failed |-> 0,
      lock |-> 0,
      pc |-> [i \in 1..Len(mems) |-> "pending"],
      out_path |-> [i \in 1..Len(mems) |-> NoPath],
      exc |-> [i \in 1..Len(mems) |-> ""],
      outcome |-> [i \in 1..Len(mems) |-> ""],
      cpc |-> "start",
      futures |-> <<>>,
      done |-> 0,
      seen |-> NoSeen,
      status |-> NoLine,
      log |-> EmptyBag,
      posts |-> [i \in 1..Len(mems) |-> 0],
      gets |-> [i \in 1..Len(mems) |-> 0],
      token_resp |-> [i \in 1..Len(mems) |-> "none"],
      media_resp |-> [i \in 1..Len(mems) |-> "none"],
      opens |-> [i \in 1..Len(mems) |-> 0],
      incs |-> [i \in 1..Len(mems) |-> 0],
      thread |-> [i \in 1..Len(mems) |-> 0] ]

\* the state is that of a new downloader
NewDownloader(mems, workers) ==
    LET d == MemoryDownloader(mems, workers)
    IN  /\ memories = d.memories
        /\ max_workers = d.max_workers
        /\ total = d.total
        /\ completed = d.completed
        /\ skipped = d.skipped
        /\ failed = d.failed
        /\ lock = d.lock
        /\ pc = d.pc
        /\ out_path = d.out_path
        /\ exc = d.exc
        /\ outcome = d.outcome
        /\ cpc = d.cpc
        /\ futures = d.futures
        /\ done = d.done
        /\ seen = d.seen
        /\ status = d.status
        /\ log = d.log
        /\ posts = d.posts
        /\ gets = d.gets
        /\ token_resp = d.token_resp
        /\ media_resp = d.media_resp
        /\ opens = d.opens
        /\ incs = d.incs
        /\ thread = d.thread

\* a file an earlier, complete download of an entry of the batch left
OldFile == [state |-> "complete", run |-> 0, by |-> 0]
OldPath == out_path_of(0, <<"a">>, ".jpg")

\* run_backup is in downloader.download_all(), the manifest was a flat list
InDownloadAll ==
    /\ app = "download"
    /\ data = JList(memories)
    /\ webdav = FALSE
    /\ archive = "none"
    /\ uploads = 0
    /\ error = ""

Init ==
    /\ \E mems \in Batches, c \in 0..MaxConcurrent : NewDownloader(mems, ClampWorkers(c))
    /\ InDownloadAll
    /\ \E old \in BOOLEAN :
          /\ old => \E k \in 1..Len(memories) : Resolve(memories[k], 0).path = OldPath
          /\ files = IF old THEN (OldPath :> OldFile) ELSE <<>>
          /\ dirs = IF old THEN {OldPath.year} ELSE {}
    /\ now = 0
    /\ run = 1
    /\ last = NoLast

\* ------------------------------------------------------------- the pool
Queued == { i \in Tasks : pc[i] = "queued" }
Running == { i \in Tasks : pc[i] \in Active }

\* the threads of ThreadPoolExecutor(max_workers) and those that run no work
\* item; which idle thread takes an item makes no difference to the program,
\* the model lets the first one take it
Workers == 1..max_workers
Idle == { w \in Workers : \A i \in Tasks : thread[i] # w }

\* faulty variant: an item is handed to the first thread, idle or not
StartTask_Busy(i) ==
    /\ pc[i] = "queued"
    /\ \A j \in Queued : i <= j
    /\ thread' = [thread EXCEPT ![i] = 1]
    /\ pc' = [pc EXCEPT ![i] = "resolve"]
    /\ status' = NoLine
    /\ UNCHANGED << memories, max_workers, total, completed, skipped, failed, lock,
                    out_path, exc, outcome, files, dirs, now, cpc, futures, done, seen,
                    log, posts, token_resp, gets, media_resp, opens, incs, run, last, backup >>

\* a pool thread that runs no work item takes the oldest queued one
StartTask(i) ==
    /\ pc[i] = "queued"
    /\ \A j \in Queued : i <= j
    /\ Idle # {}
    /\ thread' = [thread EXCEPT ![i] = CHOOSE w \in Idle : \A v \in Idle : w <= v]
    /\ pc' = [pc EXCEPT ![i] = "resolve"]
    /\ status' = NoLine
    /\ UNCHANGED << memories, max_workers, total, completed, skipped, failed, lock,
                    out_path, exc, outcome, files, dirs, now, cpc, futures, done, seen,
                    log, posts, token_resp, gets, media_resp, opens, incs, run, last, backup >>

\* ------------------------------------------------------------- _download_single
\* lines 139-154: resolve the entry and create the year directory
ResolveEntry(i) ==
    /\ pc[i] = "resolve"
    /\ \E t \in now..MaxClock :
       LET r == Resolve(memories[i], t)
       IN
        /\ now' = IF _parse_date(memories[i], t).now THEN t ELSE now
        /\ IF r.raised
           THEN /\ exc' = [exc EXCEPT ![i] = r.msg]
                /\ pc' = [pc EXCEPT ![i] = "exc1"]
                /\ UNCHANGED << out_path, dirs >>
           ELSE \E mkdir \in IF r.path.year \in dirs THEN {"ok"} ELSE {"ok", "oserror"} :
                  IF mkdir = "ok"
                  THEN /\ dirs' = dirs \cup {r.path.year}
                       /\ out_path' = [out_path EXCEPT ![i] = r.path]
                       /\ pc' = [pc EXCEPT ![i] = "exists"]
                       /\ exc' = exc
                  ELSE /\ exc' = [exc EXCEPT ![i] = "OSError"]
                       /\ pc' = [pc EXCEPT ![i] = "exc1"]
                       /\ UNCHANGED << out_path, dirs >>
    /\ status' = NoLine
    /\ UNCHANGED << memories, max_workers, total, completed, skipped, failed, lock,
                    outcome, files, cpc, futures, done, seen, log, posts, token_resp, gets,
                    media_resp, opens, incs, run, last, thread, backup >>

\* line 156: out_path.exists()
Exists(path) == path \in DOMAIN files

\* faulty variant: the existing file is not looked for
CheckExists_Never(i) ==
    /\ pc[i] = "exists"
    /\ pc' = [pc EXCEPT ![i] = "post"]
    /\ status' = NoLine
    /\ UNCHANGED << memories, max_workers, total, completed, skipped, failed, lock,
                    out_path, exc, outcome, files, dirs, now, cpc, futures, done, seen,
                    log, posts, token_resp, gets, media_resp, opens, incs, run, last, thread, backup >>

CheckExists(i) ==
    /\ pc[i] = "exists"
    /\ pc' = [pc EXCEPT ![i] = IF Exists(out_path[i]) THEN "skip1" ELSE "post"]
    /\ status' = NoLine
    /\ UNCHANGED << memories, max_workers, total, completed, skipped, failed, lock,
                    out_path, exc, outcome, files, dirs, now, cpc, futures, done, seen,
                    log, posts, token_resp, gets, media_resp, opens, incs, run, last, thread, backup >>

\* faulty variant: the lock is released between the two increments
SkipCount1_Unlocked(i) ==
    /\ pc[i] = "skip1"
    /\ lock = 0
    /\ lock' = 0
    /\ skipped' = skipped + 1
    /\ pc' = [pc EXCEPT ![i] = "skip2"]
    /\ status' = NoLine
    /\ UNCHANGED << memories, max_workers, total, completed, failed, out_path, exc,
                    outcome, files, dirs, now, cpc, futures, done, seen, log, posts,
                    token_resp, gets, media_resp, opens, incs, run, last, thread, backup >>

\* lines 157-158: take the lock, self.skipped += 1
SkipCount1(i) ==
    /\ pc[i] = "skip1"
    /\ lock = 0
    /\ lock' = i
    /\ skipped' = skipped + 1
    /\ pc' = [pc EXCEPT ![i] = "skip2"]
    /\ status' = NoLine
    /\ UNCHANGED << memories, max_workers, total, completed, failed, out_path, exc,
                    outcome, files, dirs, now, cpc, futures, done, seen, log, posts,
                    token_resp, gets, media_resp, opens, incs, run, last, thread, backup >>

\* faulty variant: the skip branch does not return, the entry is fetched anyway
SkipCount2_NoReturn(i) ==
    /\ pc[i] = "skip2"
    /\ lock = i
    /\ lock' = 0
    /\ completed' = completed + 1
    /\ incs' = [incs EXCEPT ![i] = @ + 1]
    /\ pc' = [pc EXCEPT ![i] = "post"]
    /\ status' = NoLine
    /\ UNCHANGED << memories, max_workers, total, skipped, failed, out_path, exc, files,
                    dirs, now, cpc, futures, done, seen, log, posts, token_resp, gets,
                    media_resp, opens, run, last, thread, backup, outcome >>

\* lines 159-160: self.completed += 1, release, return out_path
SkipCount2(i) ==
    /\ pc[i] = "skip2"
    /\ lock = i
    /\ lock' = 0
    /\ completed' = completed + 1
    /\ incs' = [incs EXCEPT ![i] = @ + 1]
    /\ outcome' = [outcome EXCEPT ![i] = "skipped"]
    /\ pc' = [pc EXCEPT ![i] = "done"]
    /\ thread' = [thread EXCEPT ![i] = 0]
    /\ status' = NoLine
    /\ UNCHANGED << memories, max_workers, total, skipped, failed, out_path, exc, files,
                    dirs, now, cpc, futures, done, seen, log, posts, token_resp, gets,
                    media_resp, opens, run, last, backup >>

\* faulty variant: a failed token request is tried once more
TokenRequest_Retry(i) ==
    /\ pc[i] = "post"
    /\ posts' = [posts EXCEPT ![i] = @ + 1]
    /\ \E outc \in HttpOutcomes :
          LET r == _safe_request(outc)
          IN  /\ exc' = [exc EXCEPT ![i] = IF r.raised THEN r.msg ELSE @]
              /\ pc' = [pc EXCEPT ![i] = IF r.raised /\ posts[i] = 0 THEN "post"
                                            ELSE IF r.raised THEN "exc1" ELSE "get"]
              /\ token_resp' = [token_resp EXCEPT ![i] = IF r.raised THEN @ ELSE outc]
    /\ status' = NoLine
    /\ UNCHANGED << memories, max_workers, total, completed, skipped, failed, lock,
                    out_path, outcome, files, dirs, now, cpc, futures, done, seen, log,
                    gets, media_resp, opens, incs, run, last, thread, backup >>

\* lines 162-165: the token request
TokenRequest(i) ==
    /\ pc[i] = "post"
    /\ posts' = [posts EXCEPT ![i] = @ + 1]
    /\ \E outc \in HttpOutcomes :
          LET r == _safe_request(outc)
          IN  /\ exc' = [exc EXCEPT ![i] = IF r.raised THEN r.msg ELSE @]
              /\ pc' = [pc EXCEPT ![i] = IF r.raised THEN "exc1" ELSE "get"]
              /\ token_resp' = [token_resp EXCEPT ![i] = IF r.raised THEN @ ELSE outc]
    /\ status' = NoLine
    /\ UNCHANGED << memories, max_workers, total, completed, skipped, failed, lock,
                    out_path, outcome, files, dirs, now, cpc, futures, done, seen, log,
                    gets, media_resp, opens, incs, run, last, thread, backup >>

\* line 167: the content request (stream=True: returns with the headers)
ContentRequest(i) ==
    /\ pc[i] = "get"
    /\ gets' = [gets EXCEPT ![i] = @ + 1]
    /\ \E outc \in HttpOutcomes :
          LET r == _safe_request(outc)
          IN  /\ exc' = [exc EXCEPT ![i] = IF r.raised THEN r.msg ELSE @]
              /\ pc' = [pc EXCEPT ![i] = IF r.raised THEN "exc1" ELSE "open"]
              /\ media_resp' = [media_resp EXCEPT ![i] = IF r.raised THEN @ ELSE outc]
    /\ status' = NoLine
    /\ UNCHANGED << memories, max_workers, total, completed, skipped, failed, lock,
                    out_path, outcome, files, dirs, now, cpc, futures, done, seen, log,
                    posts, token_resp, opens, incs, run, last, thread, backup >>

\* line 168: out_path.open("wb") creates or truncates the file
OpenFile(i) ==
    /\ pc[i] = "open"
    /\ \E fs \in {"ok", "oserror"} :
          IF fs = "ok"
          THEN /\ files' = (out_path[i] :> [state |-> "partial", run |-> run, by |-> i]) @@ files
               /\ opens' = [opens EXCEPT ![i] = @ + 1]
               /\ pc' = [pc EXCEPT ![i] = "copy"]
               /\ exc' = exc
          ELSE /\ exc' = [exc EXCEPT ![i] = "OSError"]
               /\ pc' = [pc EXCEPT ![i] = "exc1"]
               /\ UNCHANGED << files, opens >>
    /\ status' = NoLine
    /\ UNCHANGED << memories, max_workers, total, completed, skipped, failed, lock,
                    out_path, outcome, dirs, now, cpc, futures, done, seen, log, posts,
                    token_resp, gets, media_resp, incs, run, last, thread, backup >>

\* what a whole body written through the handle of task i leaves on disk.  The
\* handle writes from its own offset 0 and truncates nothing after open: when
\* another task opened or wrote the path since, the file is this body over
\* what the other wrote, its own bytes only if it covers the other's
Written(i) ==
    IF files[out_path[i]].by = i THEN {"complete"} ELSE {"complete", "mixed"}

\* line 169: shutil.copyfileobj(media_resp.raw, f); the stream may break
CopyBody(i) ==
    /\ pc[i] = "copy"
    /\ \E body \in {"whole", "broken"} :
          IF body = "whole"
          THEN /\ \E st \in Written(i) :
                     files' = [files EXCEPT ![out_path[i]] =
                                  [state |-> st, run |-> run, by |-> i]]
               /\ pc' = [pc EXCEPT ![i] = "ok1"]
               /\ exc' = exc
          ELSE /\ files' = [files EXCEPT ![out_path[i]] =
                               [state |-> "partial", run |-> run, by |-> i]]
               /\ exc' = [exc EXCEPT ![i] = "ProtocolError"]
               /\ pc' = [pc EXCEPT ![i] = "exc1"]
    /\ status' = NoLine
    /\ UNCHANGED << memories, max_workers, total, completed, skipped, failed, lock,
                    out_path, outcome, dirs, now, cpc, futures, done, seen, log, posts,
                    token_resp, gets, media_resp, opens, incs, run, last, thread, backup >>

\* faulty variant: completed is incremented without taking the lock
CountOk_NoLock(i) ==
    /\ pc[i] = "ok1"
    /\ completed' = completed + 1
    /\ incs' = [incs EXCEPT ![i] = @ + 1]
    /\ outcome' = [outcome EXCEPT ![i] = "ok"]
    /\ pc' = [pc EXCEPT ![i] = "done"]
    /\ thread' = [thread EXCEPT ![i] = 0]
    /\ status' = NoLine
    /\ UNCHANGED << memories, max_workers, total, skipped, failed, lock, out_path, exc,
                    files, dirs, now, cpc, futures, done, seen, log, posts, token_resp,
                    gets, media_resp, opens, run, last, backup >>

\* lines 171-174: with self.lock: self.completed += 1; return out_path
CountOk(i) ==
    /\ pc[i] = "ok1"
    /\ lock = 0
    /\ completed' = completed + 1
    /\ incs' = [incs EXCEPT ![i] = @ + 1]
    /\ outcome' = [outcome EXCEPT ![i] = "ok"]
    /\ pc' = [pc EXCEPT ![i] = "done"]
    /\ thread' = [thread EXCEPT ![i] = 0]
    /\ status' = NoLine
    /\ UNCHANGED << memories, max_workers, total, skipped, failed, lock, out_path, exc,
                    files, dirs, now, cpc, futures, done, seen, log, posts, token_resp,
                    gets, media_resp, opens, run, last, backup >>

\* lines 176-178: except Exception: take the lock, self.failed += 1
CountFail1(i) ==
    /\ pc[i] = "exc1"
    /\ lock = 0
    /\ lock' = i
    /\ failed' = failed + 1
    /\ pc' = [pc EXCEPT ![i] = "exc2"]
    /\ status' = NoLine
    /\ UNCHANGED << memories, max_workers, total, completed, skipped, out_path, exc,
                    outcome, files, dirs, now, cpc, futures, done, seen, log, posts,
                    token_resp, gets, media_resp, opens, incs, run, last, thread, backup >>

\* faulty variant: the except branch counts the failure and forgets completed
CountFail2_Forgets(i) ==
    /\ pc[i] = "exc2"
    /\ lock = i
    /\ lock' = 0
    /\ UNCHANGED << completed, incs >>
    /\ pc' = [pc EXCEPT ![i] = "report"]
    /\ status' = NoLine
    /\ UNCHANGED << memories, max_workers, total, skipped, failed, out_path, exc, outcome,
                    files, dirs, now, cpc, futures, done, seen, log, posts, token_resp,
                    gets, media_resp, opens, run, last, thread, backup >>

\* line 179: self.completed += 1, release
CountFail2(i) ==
    /\ pc[i] = "exc2"
    /\ lock = i
    /\ lock' = 0
    /\ completed' = completed + 1
    /\ incs' = [incs EXCEPT ![i] = @ + 1]
    /\ pc' = [pc EXCEPT ![i] = "report"]
    /\ status' = NoLine
    /\ UNCHANGED << memories, max_workers, total, skipped, failed, out_path, exc, outcome,
                    files, dirs, now, cpc, futures, done, seen, log, posts, token_resp,
                    gets, media_resp, opens, run, last, thread, backup >>

\* faulty variant: the failure reaches the status label only
ReportError_NoLog(i) ==
    /\ pc[i] = "report"
    /\ status' = ErrorLine(i, total, exc[i])
    /\ log' = log
    /\ outcome' = [outcome EXCEPT ![i] = "failed"]
    /\ pc' = [pc EXCEPT ![i] = "done"]
    /\ thread' = [thread EXCEPT ![i] = 0]
    /\ UNCHANGED << memories, max_workers, total, completed, skipped, failed, lock,
                    out_path, exc, files, dirs, now, cpc, futures, done, seen, posts,
                    token_resp, gets, media_resp, opens, incs, run, last, backup >>

\* faulty variant: the lines carry idx, the 0-based position in the manifest
ReportError_ZeroBased(i) ==
    /\ pc[i] = "report"
    /\ status' = ErrorLine(i - 1, total, exc[i])
    /\ log' = log (+) SetToBag({ErrorLine(i - 1, total, exc[i])})
    /\ outcome' = [outcome EXCEPT ![i] = "failed"]
    /\ pc' = [pc EXCEPT ![i] = "done"]
    /\ thread' = [thread EXCEPT ![i] = 0]
    /\ UNCHANGED << memories, max_workers, total, completed, skipped, failed, lock,
                    out_path, exc, files, dirs, now, cpc, futures, done, seen, posts,
                    token_resp, gets, media_resp, opens, incs, run, last, backup >>

\* lines 180-182: status line, log line, return None
ReportError(i) ==
    /\ pc[i] = "report"
    /\ status' = ErrorLine(i, total, exc[i])
    /\ log' = log (+) SetToBag({ErrorLine(i, total, exc[i])})
    /\ outcome' = [outcome EXCEPT ![i] = "failed"]
    /\ pc' = [pc EXCEPT ![i] = "done"]
    /\ thread' = [thread EXCEPT ![i] = 0]
    /\ UNCHANGED << memories, max_workers, total, completed, skipped, failed, lock,
                    out_path, exc, files, dirs, now, cpc, futures, done, seen, posts,
                    token_resp, gets, media_resp, opens, incs, run, last, backup >>

\* ------------------------------------------------------------- download_all
\* faulty variant: the division is made whatever self.total is
percent_Unguarded(d, tot) ==
    IF tot # 0 THEN [raised |-> FALSE, value |-> (2000 * d + tot) \div (2 * tot)]
    ELSE [raised |-> TRUE, value |-> 0]

\* line 196: percent = (done / self.total) * 100 if self.total else 100, in
\* tenths as "{percent:.1f}" prints it; raised is ZeroDivisionError
percent(d, tot) ==
    IF tot # 0 THEN [raised |-> FALSE, value |-> (2000 * d + tot) \div (2 * tot)]
    ELSE [raised |-> FALSE, value |-> 1000]

ProgressLine(d, tot, ok, skip, fail) ==
    [Line("progress", d, tot, ok, skip, fail, "") EXCEPT !.percent = percent(d, tot).value]
SummaryLine(ok, skip, fail) == Line("summary", 0, 0, ok, skip, fail, "")

\* line 186: the opening log line
LogStart ==
    /\ cpc = "start"
    /\ log' = log (+) SetToBag({Line("start", max_workers, total, 0, 0, 0, "")})
    /\ cpc' = IF total = 0 THEN "poll" ELSE "submit"
    /\ status' = NoLine
    /\ UNCHANGED << memories, max_workers, total, completed, skipped, failed, lock, pc,
                    out_path, exc, outcome, files, dirs, now, futures, done, seen, posts,
                    token_resp, gets, media_resp, opens, incs, run, last, thread, backup >>

\* lines 189-192: executor.submit for the next entry of enumerate(self.memories)
Submit ==
    /\ cpc = "submit"
    /\ Len(futures) < total
    /\ LET i == Len(futures) + 1
       IN  /\ pc[i] = "pending"
           /\ pc' = [pc EXCEPT ![i] = "queued"]
           /\ futures' = Append(futures, i)
           /\ cpc' = IF i = total THEN "poll" ELSE "submit"
    /\ status' = NoLine
    /\ UNCHANGED << memories, max_workers, total, completed, skipped, failed, lock,
                    out_path, exc, outcome, files, dirs, now, done, seen, log, posts,
                    token_resp, gets, media_resp, opens, incs, run, last, thread, backup >>

\* faulty variant: a future counts as done as soon as a thread has taken it
PollDone_CountsStarted ==
    /\ cpc = "poll"
    /\ done' = Cardinality({ k \in 1..Len(futures) :
                                pc[futures[k]] \notin {"pending", "queued"} })
    /\ cpc' = IF percent(done', total).raised THEN "raised" ELSE "rd_completed"
    /\ status' = NoLine
    /\ UNCHANGED << memories, max_workers, total, completed, skipped, failed, lock, pc,
                    out_path, exc, outcome, files, dirs, now, futures, seen, log, posts,
                    token_resp, gets, media_resp, opens, incs, run, last, thread, backup >>

\* lines 195-196: done = sum(f.done() for f in futures), then percent; a
\* ZeroDivisionError would leave download_all
PollDone ==
    /\ cpc = "poll"
    /\ done' = Cardinality({ k \in 1..Len(futures) : pc[futures[k]] = "done" })
    /\ cpc' = IF percent(done', total).raised THEN "raised" ELSE "rd_completed"
    /\ status' = NoLine
    /\ UNCHANGED << memories, max_workers, total, completed, skipped, failed, lock, pc,
                    out_path, exc, outcome, files, dirs, now, futures, seen, log, posts,
                    token_resp, gets, media_resp, opens, incs, run, last, thread, backup >>

\* line 199: the three reads of "OK", made without the lock, one after another
ReadCompleted ==
    /\ cpc = "rd_completed"
    /\ seen' = [seen EXCEPT !.completed = completed]
    /\ cpc' = "rd_skipped"
    /\ status' = NoLine
    /\ UNCHANGED << memories, max_workers, total, completed, skipped, failed, lock, pc,
                    out_path, exc, outcome, files, dirs, now, futures, done, log, posts,
                    token_resp, gets, media_resp, opens, incs, run, last, thread, backup >>

ReadSkipped ==
    /\ cpc = "rd_skipped"
    /\ seen' = [seen EXCEPT !.skipped = skipped]
    /\ cpc' = "rd_failed"
    /\ status' = NoLine
    /\ UNCHANGED << memories, max_workers, total, completed, skipped, failed, lock, pc,
                    out_path, exc, outcome, files, dirs, now, futures, done, log, posts,
                    token_resp, gets, media_resp, opens, incs, run, last, thread, backup >>

ReadFailed ==
    /\ cpc = "rd_failed"
    /\ seen' = [seen EXCEPT !.failed = failed]
    /\ cpc' = "rd_skipped2"
    /\ status' = NoLine
    /\ UNCHANGED << memories, max_workers, total, completed, skipped, failed, lock, pc,
                    out_path, exc, outcome, files, dirs, now, futures, done, log, posts,
                    token_resp, gets, media_resp, opens, incs, run, last, thread, backup >>

\* line 200: the read of "Skip"
ReadSkipped2 ==
    /\ cpc = "rd_skipped2"
    /\ seen' = [seen EXCEPT !.skipped2 = skipped]
    /\ cpc' = "emit"
    /\ status' = NoLine
    /\ UNCHANGED << memories, max_workers, total, completed, skipped, failed, lock, pc,
                    out_path, exc, outcome, files, dirs, now, futures, done, log, posts,
                    token_resp, gets, media_resp, opens, incs, run, last, thread, backup >>

\* faulty variant: done is counted after the counters were read
EmitProgress_DoneLast ==
    /\ cpc = "emit"
    /\ done' = Cardinality({ k \in 1..Len(futures) : pc[futures[k]] = "done" })
    /\ status' = ProgressLine(done', total, seen.completed - seen.skipped - seen.failed,
                              seen.skipped2, failed)
    /\ seen' = NoSeen
    /\ cpc' = IF done' = total THEN "shutdown" ELSE "poll"
    /\ UNCHANGED << memories, max_workers, total, completed, skipped, failed, lock, pc,
                    out_path, exc, outcome, files, dirs, now, futures, log, posts,
                    token_resp, gets, media_resp, opens, incs, run, last, thread, backup >>

\* lines 200-205: the read of "Fail", the status line, break or sleep
EmitProgress ==
    /\ cpc = "emit"
    /\ status' = ProgressLine(done, total, seen.completed - seen.skipped - seen.failed,
                              seen.skipped2, failed)
    /\ seen' = NoSeen
    /\ cpc' = IF done = total THEN "shutdown" ELSE "poll"
    /\ UNCHANGED << memories, max_workers, total, completed, skipped, failed, lock, pc,
                    out_path, exc, outcome, files, dirs, now, futures, done, log, posts,
                    token_resp, gets, media_resp, opens, incs, run, last, thread, backup >>

\* line 188: leaving the with block waits for every work item
Shutdown ==
    /\ cpc = "shutdown"
    /\ \A i \in Tasks : pc[i] = "done"
    /\ cpc' = "summary"
    /\ status' = NoLine
    /\ UNCHANGED << memories, max_workers, total, completed, skipped, failed, lock, pc,
                    out_path, exc, outcome, files, dirs, now, futures, done, seen, log,
                    posts, token_resp, gets, media_resp, opens, incs, run, last, thread, backup >>

\* faulty variant: OK is computed without the skipped entries
Summary_WrongOk ==
    /\ cpc = "summary"
    /\ status' = SummaryLine(completed - failed, skipped, failed)
    /\ log' = log (+) SetToBag({SummaryLine(completed - failed, skipped, failed)})
    /\ cpc' = "returned"
    /\ UNCHANGED << memories, max_workers, total, completed, skipped, failed, lock, pc,
                    out_path, exc, outcome, files, dirs, now, futures, done, seen, posts,
                    token_resp, gets, media_resp, opens, incs, run, last, thread, backup >>

\* lines 207-214: the summary, to the status label and to the log
Summary ==
    /\ cpc = "summary"
    /\ status' = SummaryLine(completed - skipped - failed, skipped, failed)
    /\ log' = log (+) SetToBag({SummaryLine(completed - skipped - failed, skipped, failed)})
    /\ cpc' = "returned"
    /\ UNCHANGED << memories, max_workers, total, completed, skipped, failed, lock, pc,
                    out_path, exc, outcome, files, dirs, now, futures, done, seen, posts,
                    token_resp, gets, media_resp, opens, incs, run, last, thread, backup >>

Next ==
    \/ \E i \in Tasks : StartTask(i)
    \/ \E i \in Tasks : ResolveEntry(i)
    \/ \E i \in Tasks : CheckExists(i)
    \/ \E i \in Tasks : SkipCount1(i)
    \/ \E i \in Tasks : SkipCount2(i)
    \/ \E i \in Tasks : TokenRequest(i)
    \/ \E i \in Tasks : ContentRequest(i)
    \/ \E i \in Tasks : OpenFile(i)
    \/ \E i \in Tasks : CopyBody(i)
    \/ \E i \in Tasks : CountOk(i)
    \/ \E i \in Tasks : CountFail1(i)
    \/ \E i \in Tasks : CountFail2(i)
    \/ \E i \in Tasks : ReportError(i)
    \/ LogStart \/ Submit
    \/ PollDone \/ ReadCompleted \/ ReadSkipped \/ ReadFailed \/ ReadSkipped2
    \/ EmitProgress \/ Shutdown \/ Summary

Spec == Init /\ [][Next]_vars

\* ------------------------------------------------------------- scheduling
\* the steps of the pool thread that runs entry i, and those of download_all
WorkerStep(i) ==
    /\ i \in Tasks
    /\ \/ StartTask(i) \/ ResolveEntry(i) \/ CheckExists(i) \/ SkipCount1(i)
       \/ SkipCount2(i) \/ TokenRequest(i) \/ ContentRequest(i) \/ OpenFile(i)
       \/ CopyBody(i) \/ CountOk(i) \/ CountFail1(i) \/ CountFail2(i) \/ ReportError(i)

Coordinator ==
    \/ LogStart \/ Submit
    \/ PollDone \/ ReadCompleted \/ ReadSkipped \/ ReadFailed \/ ReadSkipped2
    \/ EmitProgress \/ Shutdown \/ Summary

\* Every thread that can take a step takes one in the end: the operating
\* system schedules the pool threads and the thread of download_all, a request
\* returns or runs into its timeout (5, 60), time.sleep(0.5) returns.
SpecFair ==
    /\ Init /\ [][Next]_vars
    /\ WF_vars(Coordinator)
    /\ \A i \in 1..MaxEntries : WF_vars(WorkerStep(i))

\* ------------------------------------------------------------- a later batch
\* run_backup again, with the same manifest and the same output root: a new
\* MemoryDownloader over the tree the last batch left
NewRun ==
    /\ cpc = "returned"
    /\ run < MaxRuns
    /\ run' = run + 1
    /\ last' = [run |-> run,
                fetched |-> \A i \in Tasks : outcome[i] = "ok",
                out_path |-> out_path]
    /\ LET d == MemoryDownloader(memories, max_workers)
       IN  /\ memories' = d.memories
           /\ max_workers' = d.max_workers
           /\ total' = d.total
           /\ completed' = d.completed
           /\ skipped' = d.skipped
           /\ failed' = d.failed
           /\ lock' = d.lock
           /\ pc' = d.pc
           /\ out_path' = d.out_path
           /\ exc' = d.exc
           /\ outcome' = d.outcome
           /\ cpc' = d.cpc
           /\ futures' = d.futures
           /\ done' = d.done
           /\ seen' = d.seen
           /\ status' = d.status
           /\ log' = d.log
           /\ posts' = d.posts
           /\ gets' = d.gets
           /\ token_resp' = d.token_resp
           /\ media_resp' = d.media_resp
           /\ opens' = d.opens
           /\ incs' = d.incs
           /\ thread' = d.thread
    /\ UNCHANGED << files, dirs, now, backup >>

\* the batches run again: the entries that can be fetched
RerunBatches ==
    { b \in Batches : Len(b) <= MaxRerun /\ \A k \in 1..Len(b) : ~Resolve(b[k], 0).raised }

InitRerun ==
    /\ \E mems \in RerunBatches, c \in 0..MaxConcurrent :
          NewDownloader(mems, ClampWorkers(c))
    /\ InDownloadAll
    /\ files = <<>>
    /\ dirs = {}
    /\ now = 0
    /\ run = 1
    /\ last = NoLast

NextRerun == Next \/ NewRun

SpecRerun == InitRerun /\ [][NextRerun]_vars

\* ------------------------------------------------------------- run_backup
\* a line run_backup, zip_folder or upload_webdav pushes to set_status and
\* append_log
AppLine(kind, msg) == Line(kind, 0, 0, 0, 0, 0, msg)

\* the fields of the MemoryDownloader and the locals of its threads
downloader == << memories, max_workers, total, completed, skipped, failed, lock, pc,
                 out_path, exc, outcome, cpc, futures, done, seen, posts, gets,
                 token_resp, media_resp, opens, incs, thread >>

\* line 576: ensure_dir(output_root)
EnsureRoot ==
    /\ app = "root"
    /\ \E fs \in {"ok", "oserror"} :
          /\ app' = IF fs = "ok" THEN "load" ELSE "except"
          /\ error' = IF fs = "ok" THEN error ELSE "OSError"
    /\ status' = NoLine
    /\ UNCHANGED << downloader, log, files, dirs, now, run, last, data, webdav, archive,
                    uploads >>

\* lines 578-588: the loading line, read_memories_json, MemoryDownloader(...)
LoadManifest ==
    /\ app = "load"
    /\ status' = AppLine("loading", "")
    /\ log' = log (+) SetToBag({AppLine("loading", "")})
    /\ LET r == read_memories_json(data)
           d == MemoryDownloader(r.memories, max_workers)
       IN  IF r.raised
           THEN /\ app' = "except"
                /\ error' = r.msg
                /\ UNCHANGED downloader
           ELSE /\ app' = "download"
                /\ error' = error
                /\ memories' = d.memories
                /\ max_workers' = d.max_workers
                /\ total' = d.total
                /\ completed' = d.completed
                /\ skipped' = d.skipped
                /\ failed' = d.failed
                /\ lock' = d.lock
                /\ pc' = d.pc
                /\ out_path' = d.out_path
                /\ exc' = d.exc
                /\ outcome' = d.outcome
                /\ cpc' = d.cpc
                /\ futures' = d.futures
                /\ done' = d.done
                /\ seen' = d.seen
                /\ posts' = d.posts
                /\ gets' = d.gets
                /\ token_resp' = d.token_resp
                /\ media_resp' = d.media_resp
                /\ opens' = d.opens
                /\ incs' = d.incs
                /\ thread' = d.thread
    /\ UNCHANGED << files, dirs, now, run, last, data, webdav, archive, uploads >>

\* faulty variant: the archive is begun while download_all is still running
ZipStart_Pipelined ==
    /\ app = "download"
    /\ cpc \notin {"start", "submit"}
    /\ status' = AppLine("zipping", "")
    /\ log' = log (+) SetToBag({AppLine("zipping", "")})
    /\ \E fs \in {"ok", "oserror"} :
          /\ app' = IF fs = "ok" THEN "zip" ELSE "except"
          /\ archive' = IF fs = "ok" THEN "partial" ELSE archive
          /\ error' = IF fs = "ok" THEN error ELSE "OSError"
    /\ UNCHANGED << downloader, files, dirs, now, run, last, data, webdav, uploads >>

\* lines 589-593 and 219-229: download_all has returned; zip_folder pushes its
\* line and opens ZipFile(zip_path, "w")
ZipStart ==
    /\ app = "download"
    /\ cpc = "returned"
    /\ status' = AppLine("zipping", "")
    /\ log' = log (+) SetToBag({AppLine("zipping", "")})
    /\ \E fs \in {"ok", "oserror"} :
          /\ app' = IF fs = "ok" THEN "zip" ELSE "except"
          /\ archive' = IF fs = "ok" THEN "partial" ELSE archive
          /\ error' = IF fs = "ok" THEN error ELSE "OSError"
    /\ UNCHANGED << downloader, files, dirs, now, run, last, data, webdav, uploads >>

\* lines 230-235: os.walk and zf.write of every file, then the archive is closed
ZipWalk ==
    /\ app = "zip"
    /\ \E fs \in {"ok", "oserror"} :
          /\ app' = IF fs = "ok" THEN "zipped" ELSE "except"
          /\ archive' = IF fs = "ok" THEN "written" ELSE archive
          /\ error' = IF fs = "ok" THEN error ELSE "OSError"
    /\ status' = NoLine
    /\ UNCHANGED << downloader, log, files, dirs, now, run, last, data, webdav, uploads >>

\* lines 594-597: the "ZIP created" line and the test of the WebDAV settings
ZipCreated ==
    /\ app = "zipped"
    /\ status' = AppLine("zip_created", "")
    /\ log' = log (+) SetToBag({AppLine("zip_created", "")})
    /\ app' = IF webdav THEN "upload" ELSE "finish"
    /\ UNCHANGED << downloader, files, dirs, now, run, last, data, webdav, archive,
                    uploads, error >>

\* lines 240-262: the client, the remote directory (its errors are swallowed)
\* and the "Uploading" line
UploadStart ==
    /\ app = "upload"
    /\ status' = AppLine("uploading", "")
    /\ log' = log (+) SetToBag({AppLine("uploading", "")})
    /\ app' = "upload_sync"
    /\ UNCHANGED << downloader, files, dirs, now, run, last, data, webdav, archive,
                    uploads, error >>

\* lines 264-271: client.upload_sync and the "upload complete" line
UploadSync ==
    /\ app = "upload_sync"
    /\ uploads' = uploads + 1
    /\ \E net \in {"ok", "failed"} :
          /\ app' = IF net = "ok" THEN "finish" ELSE "except"
          /\ error' = IF net = "ok" THEN error ELSE "WebDavException"
          /\ status' = IF net = "ok" THEN AppLine("uploaded", "") ELSE NoLine
          /\ log' = IF net = "ok" THEN log (+) SetToBag({AppLine("uploaded", "")}) ELSE log
    /\ UNCHANGED << downloader, files, dirs, now, run, last, data, webdav, archive >>

\* lines 608-610: "Backup completed successfully"
Finish ==
    /\ app = "finish"
    /\ status' = AppLine("completed", "")
    /\ log' = log (+) SetToBag({AppLine("completed", "")})
    /\ app' = "done"
    /\ UNCHANGED << downloader, files, dirs, now, run, last, data, webdav, archive,
                    uploads, error >>

\* lines 612-615: except Exception as e: the "Error {e}" line
Except ==
    /\ app = "except"
    /\ status' = AppLine("app_error", error)
    /\ log' = log (+) SetToBag({AppLine("app_error", error)})
    /\ app' = "failed"
    /\ UNCHANGED << downloader, files, dirs, now, run, last, data, webdav, archive,
                    uploads, error >>

\* the manifests run_backup is given: a flat list, the "Saved Media" envelope,
\* and the shapes that are no list of entries
BackupBatches == { b \in Batches : Len(b) <= MaxBackup }
Manifests ==
    { JList(b) : b \in BackupBatches }
      \cup { JDict(TRUE, JList(b)) : b \in BackupBatches }
      \cup { JString, JInvalid, JDict(FALSE, JString), JDict(TRUE, JString),
              JDict(TRUE, JDict(FALSE, JString)) }

\* start_backup has validated the inputs, pushed "Starting backup" and started
\* the thread of run_backup; there is no downloader yet
InitBackup ==
    /\ \E c \in 0..MaxConcurrent :
          LET d == MemoryDownloader(<<>>, ClampWorkers(c))
          IN  /\ memories = d.memories
              /\ max_workers = d.max_workers
              /\ total = d.total
              /\ completed = d.completed
              /\ skipped = d.skipped
              /\ failed = d.failed
              /\ lock = d.lock
              /\ pc = d.pc
              /\ out_path = d.out_path
              /\ exc = d.exc
              /\ outcome = d.outcome
              /\ cpc = "none"
              /\ futures = d.futures
              /\ done = d.done
              /\ seen = d.seen
              /\ posts = d.posts
              /\ gets = d.gets
              /\ token_resp = d.token_resp
              /\ media_resp = d.media_resp
              /\ opens = d.opens
              /\ incs = d.incs
              /\ thread = d.thread
    /\ status = NoLine
    /\ log = SetToBag({AppLine("starting", "")})
    /\ app = "root"
    /\ data \in Manifests
    /\ webdav \in BOOLEAN
    /\ archive = "none"
    /\ uploads = 0
    /\ error = ""
    /\ \E old \in BOOLEAN :
          /\ old => \E k \in 1..Len(read_memories_json(data).memories) :
                        Resolve(read_memories_json(data).memories[k], 0).path = OldPath
          /\ files = IF old THEN (OldPath :> OldFile) ELSE <<>>
          /\ dirs = IF old THEN {OldPath.year} ELSE {}
    /\ now = 0
    /\ run = 1
    /\ last = NoLast

NextBackup ==
    \/ Next
    \/ EnsureRoot \/ LoadManifest
    \/ ZipStart \/ ZipWalk \/ ZipCreated
    \/ UploadStart \/ UploadSync
    \/ Finish \/ Except

SpecBackup == InitBackup /\ [][NextBackup]_vars

\* ------------------------------------------------------------- properties
\* the Date text of the entry (either key) matches one of the two patterns
DateValue(memory) == IF memory.Date.kind # "empty" THEN memory.Date ELSE memory.date
DateMatches(memory) == DateValue(memory).kind = "text" /\ DateValue(memory).sep \in {" ", "T"}
HasLink(memory) == memory.DownloadLink # <<>> \/ memory.download_link # <<>>
Raised(i) == exc[i] # ""
Handling == {"exc1", "exc2", "report"}

\* C1: every entry increases completed by exactly 1, whether it succeeds, is
\* skipped or fails (under every interleaving), and completed = total when
\* download_all has returned.
C1_CompletedOncePerEntry ==
    /\ \A i \in Tasks : incs[i] = IF pc[i] \in {"report", "done"} THEN 1 ELSE 0
    /\ completed = Cardinality({ i \in Tasks : incs[i] = 1 })
    /\ cpc = "returned" => completed = total

C1_Witness ==
    /\ cpc = "returned" /\ max_workers = 2
    /\ \E i, j \in Tasks : outcome[i] = "failed" /\ outcome[j] = "skipped"
    /\ completed = 2

\* C2: whenever the lock is free (so an observer can hold it),
\* skipped + failed <= completed <= total; total never changes and completed,
\* skipped and failed never decrease.
C2_CounterBounds ==
    /\ [](lock = 0 => (skipped + failed <= completed /\ completed <= total))
    /\ [][/\ total' = total
          /\ completed' >= completed
          /\ skipped' >= skipped
          /\ failed' >= failed]_vars

C2_Witness == lock = 0 /\ skipped = 1 /\ failed = 1 /\ completed = 2 /\ cpc # "returned"

\* C3: an exception raised while an entry is processed is caught in that
\* entry's task, counted once under failed and logged once; the batch never gets
\* stuck on it, every other entry is processed, and when every entry has failed
\* the summary reports Fail = total.
C3_ExceptionsStayInTheTask ==
    /\ \A i \in Tasks : Raised(i) /\ pc[i] = "done" =>
          /\ outcome[i] = "failed"
          /\ CopiesIn(ErrorLine(i, total, exc[i]), log) = 1
    /\ \A i \in Tasks : Raised(i) => pc[i] \in Handling \cup {"done"}
    /\ failed = Cardinality({ i \in Tasks : Raised(i) /\ pc[i] \in {"exc2", "report", "done"} })
    /\ cpc # "returned" => ENABLED Next
    /\ cpc = "returned" =>
          /\ \A i \in Tasks : pc[i] = "done"
          /\ (\A i \in Tasks : Raised(i)) => CopiesIn(SummaryLine(0, 0, total), log) = 1

C3_Witness ==
    /\ cpc = "returned" /\ total = 2 /\ failed = 2
    /\ exc[1] = "No 'Download Link' in memory entry"
    /\ exc[2] = "Network timeout while contacting Snapchat servers"

\* a file a failed copy left: it is partial and nobody is writing it
LeftByFailedCopy(path) ==
    /\ path \in DOMAIN files
    /\ files[path].state = "partial"
    /\ \A j \in Tasks : ~(pc[j] = "copy" /\ out_path[j] = path)

\* C4: a file a failed content phase left behind is no skip target: no entry,
\* in this batch or in a later one, is counted as skipped because of it.
C4_PartialFileIsNoSkipTarget ==
    [][\A i \in Tasks :
          (pc[i] = "exists" /\ pc'[i] = "skip1") => ~LeftByFailedCopy(out_path[i])]_vars

\* C5 as stated: after a batch in which every entry was fetched, the same batch
\* run again skips every entry and writes to no file.
C5_RerunSkipsEverything ==
    (cpc = "returned" /\ run > 1 /\ last.fetched) =>
        /\ skipped = total /\ failed = 0
        /\ \A path \in DOMAIN files : files[path].run < run

\* C5, amended: the same, for batches whose entries all carry a date that
\* matches one of the two patterns.
C5_RerunSkipsDatedEntries ==
    (/\ cpc = "returned" /\ run > 1 /\ last.fetched
     /\ \A i \in Tasks : DateMatches(memories[i])) =>
        /\ skipped = total /\ failed = 0
        /\ \A path \in DOMAIN files : files[path].run < run

C5_Witness ==
    /\ cpc = "returned" /\ run = 2 /\ last.fetched
    /\ total = 1 /\ DateMatches(memories[1])
    /\ skipped = 1 /\ posts[1] = 0

\* C6 as stated: an entry resolved in two batches has the same destination
\* path both times.
C6_SamePathEveryTime ==
    \A i \in Tasks :
        (run > 1 /\ out_path[i] # NoPath /\ last.out_path[i] # NoPath) =>
            out_path[i] = last.out_path[i]

\* C6, amended: an entry whose date matches one of the two patterns has the
\* same destination path every time it is resolved.
C6_SamePathWhenDated ==
    \A i \in Tasks :
        (run > 1 /\ out_path[i] # NoPath /\ last.out_path[i] # NoPath
         /\ DateMatches(memories[i])) =>
            out_path[i] = last.out_path[i]

C6_Witness ==
    /\ run = 2
    /\ \E i \in Tasks :
          /\ DateMatches(memories[i]) /\ DateValue(memories[i]).sep = "T"
          /\ out_path[i] # NoPath /\ out_path[i] = last.out_path[i]

\* C7: an entry with a link whose date is missing or malformed in any way gets
\* a destination path (from the current time) and is not failed for its date:
\* if it fails, it fails after it was resolved or on creating the directory.
C7_BadDateNeverFailsTheEntry ==
    \A i \in Tasks :
        (/\ ~DateMatches(memories[i]) /\ HasLink(memories[i])
         /\ pc[i] \in Handling \cup {"done"}) =>
            (out_path[i] # NoPath \/ exc[i] = "OSError")

\* C8: within one entry the content request is issued only after the token
\* request has returned successfully, the destination is opened only after both
\* have, and no file of this batch exists without a successful content
\* response of the entry that wrote it.
C8_TokenThenContentThenFile ==
    /\ \A i \in Tasks : gets[i] > 0 => (posts[i] > 0 /\ token_resp[i] = "2xx")
    /\ \A i \in Tasks : opens[i] > 0 => (token_resp[i] = "2xx" /\ media_resp[i] = "2xx")
    /\ \A path \in DOMAIN files :
          files[path].run = run => media_resp[files[path].by] = "2xx"

C8_Witness ==
    \E i \in Tasks :
        /\ outcome[i] = "ok" /\ opens[i] = 1
        /\ files[out_path[i]] = [state |-> "complete", run |-> run, by |-> i]

\* the steps of a task that need nothing but the task itself
OwnStep(i) ==
    \/ ResolveEntry(i) \/ CheckExists(i) \/ TokenRequest(i) \/ ContentRequest(i)
    \/ OpenFile(i) \/ CopyBody(i) \/ ReportError(i)

Summaries == { l \in BagToSet(log) : l.kind = "summary" }

\* C10: the summary is emitted exactly once per batch, when every task has
\* finished, whatever failed is; its OK, Skip and Fail add up to total.
C10_OneSummaryAtTheEnd ==
    /\ cpc # "returned" => Summaries = {}
    /\ cpc = "returned" =>
          \E l \in Summaries :
              /\ Summaries = {l} /\ CopiesIn(l, log) = 1
              /\ l.ok + l.skip + l.fail = total
    /\ status.kind = "summary" => \A i \in Tasks : pc[i] = "done"

C10_Witness ==
    /\ cpc = "returned" /\ total = 2 /\ failed = 1 /\ skipped = 1
    /\ status = SummaryLine(0, 1, 1)

\* the progress loop has been left
LoopLeft == cpc \in {"shutdown", "summary", "returned"}

\* C11: when every thread keeps being scheduled and every request returns or
\* times out, the progress loop reads done = total in the end, stops, and
\* download_all returns; the loop is never left while a submitted task is
\* unfinished.
C11_LoopEndsWhenAllDone ==
    /\ <>(cpc = "returned" /\ done = total)
    /\ [](LoopLeft => (done = total /\ \A k \in 1..Len(futures) : pc[futures[k]] = "done"))
    /\ [][(cpc = "emit" /\ cpc' = "poll") => done < total]_vars

C11_Witness ==
    /\ cpc = "returned" /\ total = 2 /\ max_workers = 1 /\ done = 2
    /\ exc[1] = "Network timeout while contacting Snapchat servers" /\ gets[1] = 1
    /\ outcome[2] = "ok"

\* C12: in run_backup the archive is begun only when download_all has returned
\* and every task has finished, the upload only when the archive is written;
\* when archiving fails nothing is uploaded; from the return of download_all on
\* the counters keep their values.
C12_ArchiveThenUpload ==
    /\ [](archive # "none" \/ app \in {"zip", "zipped", "upload", "upload_sync", "finish", "done"}
            => (cpc = "returned" /\ \A i \in Tasks : pc[i] = "done"))
    /\ [](uploads > 0 \/ app \in {"upload", "upload_sync"} => archive = "written")
    /\ [](app \in {"except", "failed"} /\ archive # "written"
            => (uploads = 0 /\ CopiesIn(AppLine("uploading", ""), log) = 0))
    /\ [][cpc = "returned" => UNCHANGED << total, completed, skipped, failed >>]_vars

C12_Witness ==
    /\ app = "done" /\ uploads = 1 /\ archive = "written"
    /\ total = 2 /\ completed = 2 /\ failed = 1

\* the decoded manifest, unwrapped, is no list
Unwrapped(d) == IF d.type = "dict" /\ d.has THEN d.saved ELSE d
NotAList(d) == d.type # "invalid" /\ Unwrapped(d).type # "list"
StructuralError == "Unexpected JSON structure for memories_history.json"

\* C13: with a manifest that is no list after unwrapping, run_backup ends in its
\* error branch with the structural error (unless output_root could not be
\* made): no downloader is built, no task submitted, no request issued, the
\* counters stay 0, nothing is archived or uploaded.
C13_StructuralErrorBeforeAnyTask ==
    NotAList(data) =>
        /\ app \in {"root", "load", "except", "failed"}
        /\ app \in {"root", "load", "except"} => ENABLED NextBackup
        /\ app \in {"except", "failed"} => error \in {StructuralError, "OSError"}
        /\ app = "failed" => CopiesIn(AppLine("app_error", error), log) = 1
        /\ cpc = "none" /\ futures = <<>> /\ posts = <<>> /\ gets = <<>>
        /\ total = 0 /\ completed = 0 /\ skipped = 0 /\ failed = 0
        /\ archive = "none" /\ uploads = 0

C13_Witness ==
    /\ data = JDict(TRUE, JDict(FALSE, JString))
    /\ app = "failed" /\ error = StructuralError
    /\ status = AppLine("app_error", StructuralError)

\* the entries of the batch that were resolved have pairwise distinct paths
DistinctPaths ==
    \A i, j \in Tasks :
        (i # j /\ out_path[i] # NoPath /\ out_path[j] # NoPath) => out_path[i] # out_path[j]
\* the destination of the entry was on disk before the batch
AlreadyThere(i) == out_path[i] \in DOMAIN files /\ files[out_path[i]].run < run
\* a phase of the entry failed: the directory, a request or the file
PhaseErrors ==
    {"OSError", "Network timeout while contacting Snapchat servers", "Network error",
     "ProtocolError"}
NewFiles == { path \in DOMAIN files : files[path].run = run /\ files[path].state = "complete" }

\* C14: after a batch whose entries have pairwise distinct destination paths,
\* skipped is the number of entries whose file was already there, failed the
\* number of entries without a link or with a failed phase, and
\* completed - skipped - failed the number of new files.
C14_CountersClassifyEntries ==
    (cpc = "returned" /\ DistinctPaths) =>
        /\ skipped = Cardinality({ i \in Tasks : AlreadyThere(i) })
        /\ failed = Cardinality({ i \in Tasks :
                                    ~HasLink(memories[i]) \/ exc[i] \in PhaseErrors })
        /\ completed - skipped - failed = Cardinality(NewFiles)

\* the token request of the entry was issued and raised
TokenFailed(i) == posts[i] = 1 /\ token_resp[i] # "2xx" /\ pc[i] # "post"
\* the error lines in the log that carry the index of the entry
ErrorLinesOf(i) == { l \in BagToSet(log) : l.kind = "error" /\ l.n = i }

\* C15: an entry whose token request times out, fails in transport or gets a
\* status that is not 2xx is counted as failed; no content request is issued
\* and no file is created for it; one status line and one log line carry its
\* 1-based index, the batch total and the message of the failure.
C15_TokenFailureIsReported ==
    /\ [](\A i \in Tasks : TokenFailed(i) =>
             /\ exc[i] \in {"Network timeout while contacting Snapchat servers",
                             "Network error"}
             /\ pc[i] \in Handling \cup {"done"}
             /\ gets[i] = 0 /\ opens[i] = 0
             /\ \A path \in DOMAIN files :
                    ~(files[path].run = run /\ files[path].by = i))
    /\ [](failed >= Cardinality({ i \in Tasks :
                                     TokenFailed(i) /\ pc[i] \in {"exc2", "report", "done"} }))
    /\ [](\A i \in Tasks : (TokenFailed(i) /\ pc[i] = "done") =>
             /\ outcome[i] = "failed"
             /\ ErrorLinesOf(i) = {ErrorLine(i, total, exc[i])}
             /\ CopiesIn(ErrorLine(i, total, exc[i]), log) = 1)
    /\ [][\A i \in Tasks : (TokenFailed(i) /\ pc[i] = "report" /\ pc'[i] = "done") =>
              status' = ErrorLine(i, total, exc[i])]_vars

C15_Witness ==
    /\ total = 2 /\ TokenFailed(2) /\ pc[2] = "done" /\ exc[2] = "Network error"
    /\ status = ErrorLine(2, 2, "Network error")
    /\ outcome[1] = "ok"

\* the progress line of an empty batch: "Progress 0/0 (100.0%) OK 0 Skip 0 Fail 0"
EmptyProgress ==
    [kind |-> "progress", n |-> 0, total |-> 0, ok |-> 0, skip |-> 0, fail |-> 0,
     msg |-> "", percent |-> 1000]

\* C16: with an empty manifest download_all submits nothing, computes the
\* percentage without dividing, leaves the loop at its first poll with the
\* 100% line, pushes the summary and returns; the counters are 0 throughout and
\* no directory or file is made.
C16_EmptyManifest ==
    /\ [](total = 0 =>
             /\ futures = <<>> /\ cpc \notin {"submit", "raised"}
             /\ completed = 0 /\ skipped = 0 /\ failed = 0
             /\ dirs = {} /\ files = <<>>
             /\ cpc # "returned" => ENABLED Next
             /\ cpc = "returned" => CopiesIn(SummaryLine(0, 0, 0), log) = 1)
    /\ [][(total = 0 /\ cpc = "emit") =>
              (cpc' = "shutdown" /\ status' = EmptyProgress)]_vars

C16_Witness ==
    /\ total = 0 /\ memories = <<>> /\ cpc = "returned" /\ done = 0
    /\ status = SummaryLine(0, 0, 0)

\* the entry is in the skip branch or has returned from it
Skipping(i) == pc[i] \in {"skip1", "skip2"} \/ outcome[i] = "skipped"

\* C17: an entry whose destination exists when its thread looks takes the skip
\* branch: it is counted under skipped and under completed, and it issues no
\* token request, no content request and writes nothing to the file.
C17_SkipFetchesNothing ==
    /\ [][\A i \in Tasks : (pc[i] = "exists" /\ pc'[i] # "exists") =>
              (pc'[i] = "skip1" <=> Exists(out_path[i]))]_vars
    /\ [][\A i \in Tasks : (pc[i] = "skip2" /\ pc'[i] # "skip2") =>
              (pc'[i] = "done" /\ outcome'[i] = "skipped")]_vars
    /\ [][\A i \in Tasks : (Skipping(i)' /\ pc'[i] # pc[i]) => files' = files]_vars
    /\ [](\A i \in Tasks : Skipping(i) =>
             posts[i] = 0 /\ gets[i] = 0 /\ opens[i] = 0 /\ ~Raised(i))
    /\ [](\A i \in Tasks : outcome[i] = "skipped" => (pc[i] = "done" /\ incs[i] = 1))
    /\ [](skipped = Cardinality({ i \in Tasks : pc[i] = "skip2" \/ outcome[i] = "skipped" }))

C17_Witness ==
    \E i, j \in Tasks :
        /\ outcome[i] = "skipped" /\ files[out_path[i]] = OldFile
        /\ outcome[j] = "ok" /\ skipped = 1 /\ completed = 2

\* C18: the worker count is at least 1; at every moment at most max_workers
\* entries are being processed, each by a pool thread of its own; a thread takes
\* a queued entry only when it runs none.
C18_BoundedPool ==
    /\ [](max_workers >= 1 /\ Cardinality(Running) <= max_workers)
    /\ [](\A i \in Tasks : IF i \in Running THEN thread[i] \in Workers ELSE thread[i] = 0)
    /\ [](\A i, j \in Running : i # j => thread[i] # thread[j])
    /\ [][\A i \in Tasks : (pc[i] = "queued" /\ pc'[i] # "queued") =>
              \A j \in Tasks : thread[j] # thread'[i]]_vars

C18_Witness ==
    /\ total = 2 /\ max_workers = 1
    /\ pc[1] = "done" /\ thread[1] = 0
    /\ pc[2] = "copy" /\ thread[2] = 1

\* the step is a step of the thread that runs entry i, made with the lock in
\* its hand: the lock is held by i before or after the step, or (the single
\* increment of lines 171-172) taken and released within it; never by another
ByLockHolder(i) ==
    /\ pc'[i] # pc[i]
    /\ lock \in {0, i} /\ lock' \in {0, i}
    /\ (lock = 0 /\ lock' = 0) => pc[i] = "ok1"

\* C19: no step of download_all (the submissions, the progress loop, the
\* summary) changes total, completed, skipped or failed or takes the lock;
\* every change of completed, skipped or failed is a step of a pool thread that
\* holds the lock.
C19_LoopOnlyReads ==
    /\ [][cpc' # cpc => UNCHANGED << total, completed, skipped, failed, lock >>]_vars
    /\ [][total' = total]_vars
    /\ [][<< completed, skipped, failed >>' # << completed, skipped, failed >> =>
              (cpc' = cpc /\ \E i \in Tasks : ByLockHolder(i))]_vars

C19_Witness ==
    /\ cpc = "rd_skipped" /\ seen.completed = 1
    /\ lock = 2 /\ pc[2] = "skip2" /\ skipped = 1 /\ completed = 1

\* two entries of the batch were resolved to one path
Collide(i, j) == i # j /\ out_path[i] # NoPath /\ out_path[i] = out_path[j]

\* C20: two entries of a batch with the same destination path end, whatever
\* the interleaving, with each counted once under completed and with no failure
\* but that of a phase of their own; when neither failed, either both wrote the
\* file and it holds the whole body of the one that wrote last, or one of them
\* found the file and was skipped.
C20_CollisionOutcomes ==
    cpc = "returned" =>
        \A i, j \in Tasks : Collide(i, j) =>
            /\ incs[i] = 1 /\ incs[j] = 1
            /\ outcome[i] = "failed" => exc[i] \in PhaseErrors
            /\ (outcome[i] # "failed" /\ outcome[j] # "failed") =>
                  \/ /\ outcome[i] = "ok" /\ outcome[j] = "ok"
                     /\ files[out_path[i]].state = "complete"
                     /\ files[out_path[i]].by \in {i, j}
                  \/ "skipped" \in {outcome[i], outcome[j]}

\* the step pushes a progress line
Emits == cpc = "emit" /\ cpc' # "emit"

\* C21: a progress line pushed while tasks are running shows an OK that is not
\* negative, and its OK, Skip and Fail are those of one moment of the counters:
\* OK + Skip + Fail is a value completed had, so none of the three sums or
\* values exceeds the counter it was read from.
C21_ProgressLineIsASnapshot ==
    [][(Emits /\ Running # {}) =>
          /\ status'.ok >= 0
          /\ status'.ok + status'.skip + status'.fail <= completed'
          /\ status'.skip <= skipped'
          /\ status'.fail <= failed']_vars

\* C22: a task is done only after it has counted itself, so every progress
\* line has done <= OK + Skip + Fail; the line with done = total shows the final
\* counters, which no step changes any more and which the summary shows too.
C22_DoneNeverAheadOfTheCounters ==
    /\ [](\A i \in Tasks : pc[i] = "done" => incs[i] = 1)
    /\ [](cpc \in {"rd_completed", "rd_skipped", "rd_failed", "rd_skipped2", "emit"}
            => done <= completed)
    /\ [][Emits => status'.n <= status'.ok + status'.skip + status'.fail]_vars
    /\ [][(Emits /\ status'.n = total) =>
              /\ cpc' = "shutdown"
              /\ \A i \in Tasks : pc[i] = "done"
              /\ status' = ProgressLine(total, total, completed - skipped - failed,
                                        skipped, failed)]_vars
    /\ [][LoopLeft => UNCHANGED << completed, skipped, failed >>]_vars
    /\ [](cpc = "returned" =>
             Summaries = {SummaryLine(completed - skipped - failed, skipped, failed)})

C22_Witness ==
    /\ cpc = "shutdown" /\ total = 2 /\ skipped = 1 /\ failed = 0
    /\ status = ProgressLine(2, 2, 1, 1, 0)
====
